---- MODULE Spec2Model ----
(***************************************************************************)
(* QuickLink: the in-memory URL shortener (URLShortener) and its           *)
(* create / resolve / stats / list protocol under a sync.RWMutex.          *)
(* Strings are sequences of one-character strings, so that prefix tests,   *)
(* concatenation and host extraction are computed, not assumed.            *)
(***************************************************************************)
EXTENDS Integers, Sequences, FiniteSets, TLC

(***************************************************************************)
(* Bounds of the model.                                                    *)
(***************************************************************************)
\* number of concurrent callers (goroutines)
NumProcs == 2
\* total number of operations invoked in one behaviour
MaxCalls == 3
\* the generator's random draws range over MaxDraw + 1 outcomes
MaxDraw == 1

Procs == 1..NumProcs

(***************************************************************************)
(* Strings.                                                                *)
(***************************************************************************)
HasPrefix(s, prefix) ==
    /\ Len(s) >= Len(prefix)
    /\ SubSeq(s, 1, Len(prefix)) = prefix

Contains(s, ch) == \E i \in 1..Len(s) : s[i] = ch

\* index of the first element of s that is in the set chars, Len(s) + 1 if none
IndexAny(s, chars) ==
    IF \E i \in 1..Len(s) : s[i] \in chars
    THEN CHOOSE i \in 1..Len(s) :
            /\ s[i] \in chars
            /\ \A j \in 1..(i - 1) : s[j] \notin chars
    ELSE Len(s) + 1

\* index of the last element of s equal to ch, 0 if none
LastIndex(s, ch) ==
    IF \E i \in 1..Len(s) : s[i] = ch
    THEN CHOOSE i \in 1..Len(s) :
            /\ s[i] = ch
            /\ \A j \in (i + 1)..Len(s) : s[j] # ch
    ELSE 0

SchemeHTTP == <<"h", "t", "t", "p", ":", "/", "/">>
SchemeHTTPS == <<"h", "t", "t", "p", "s", ":", "/", "/">>
SchemeFTP == <<"f", "t", "p", ":", "/", "/">>
StrInvalid == <<"i", "n", "v", "a", "l", "i", "d">>
StrNotAValidURL ==
    <<"n", "o", "t", "-", "a", "-", "v", "a", "l", "i", "d", "-", "u", "r", "l">>
StrLocalhost == <<"l", "o", "c", "a", "l", "h", "o", "s", "t">>
Digits == {"0", "1", "2", "3", "4", "5", "6", "7", "8", "9"}

HasScheme(str) ==
    \/ HasPrefix(str, SchemeHTTP)
    \/ HasPrefix(str, SchemeHTTPS)
    \/ HasPrefix(str, SchemeFTP)

(***************************************************************************)
(* url.Parse, for a string that starts with http://, https:// or ftp://    *)
(* (the only strings isValidURL hands to it): the scheme is the text       *)
(* before the first ":", the authority runs from after "//" to the first   *)
(* "/", "?" or "#", the host is the authority after its last "@".  Parsing *)
(* fails on a space in the authority (in the user information or in the    *)
(* host; a space in the path, the query or the fragment is accepted) and   *)
(* on a port, the text after the last ":" of the host, that is not a       *)
(* number.                                                                 *)
(***************************************************************************)
ParseAuthority(str) ==
    LET colon == IndexAny(str, {":"})
        rest == SubSeq(str, colon + 3, Len(str))
        stop == IndexAny(rest, {"/", "?", "#"})
    IN  SubSeq(rest, 1, stop - 1)

ParseHost(str) ==
    LET authority == ParseAuthority(str)
    IN  SubSeq(authority, LastIndex(authority, "@") + 1, Len(authority))

ParseErr(str) ==
    LET host == ParseHost(str)
        colon == LastIndex(host, ":")
    IN  \/ Contains(ParseAuthority(str), " ")
        \/ /\ colon > 0
           /\ \E i \in (colon + 1)..Len(host) : host[i] \notin Digits

ParseScheme(str) == SubSeq(str, 1, IndexAny(str, {":"}) - 1)

\* isValidURL without the test that the host has a dot
isValidURLNoDotCheck(str) ==
    IF str = <<>> THEN FALSE
    ELSE IF str = StrInvalid \/ HasPrefix(str, <<":", "/", "/">>) \/ str = StrNotAValidURL
    THEN FALSE
    ELSE LET s == IF ~HasScheme(str) THEN SchemeHTTP \o str ELSE str
         IN  IF ParseErr(s) THEN FALSE
             ELSE IF ParseScheme(s) = <<>> \/ ParseHost(s) = <<>> THEN FALSE
             ELSE IF Contains(ParseHost(s), " ") THEN FALSE
             ELSE TRUE

\* isValidURL without the exception for localhost
isValidURLNoLocalhost(str) ==
    IF str = <<>> THEN FALSE
    ELSE IF str = StrInvalid \/ HasPrefix(str, <<":", "/", "/">>) \/ str = StrNotAValidURL
    THEN FALSE
    ELSE LET s == IF ~HasScheme(str) THEN SchemeHTTP \o str ELSE str
         IN  IF ParseErr(s) THEN FALSE
             ELSE IF ParseScheme(s) = <<>> \/ ParseHost(s) = <<>> THEN FALSE
             ELSE IF ~Contains(ParseHost(s), ".") THEN FALSE
             ELSE IF Contains(ParseHost(s), " ") THEN FALSE
             ELSE TRUE

isValidURL(str) ==
    IF str = <<>> THEN FALSE
    ELSE IF str = StrInvalid \/ HasPrefix(str, <<":", "/", "/">>) \/ str = StrNotAValidURL
    THEN FALSE
    ELSE LET s == IF ~HasScheme(str) THEN SchemeHTTP \o str ELSE str
         IN  IF ParseErr(s) THEN FALSE
             ELSE IF ParseScheme(s) = <<>> \/ ParseHost(s) = <<>> THEN FALSE
             ELSE IF ParseHost(s) # StrLocalhost /\ ~Contains(ParseHost(s), ".") THEN FALSE
             ELSE IF Contains(ParseHost(s), " ") THEN FALSE
             ELSE TRUE

\* normalizeURL that tests for http:// only
normalizeURLHTTPOnly(str) ==
    IF ~HasPrefix(str, SchemeHTTP) THEN SchemeHTTP \o str ELSE str

\* normalizeURL that does not know ftp://
normalizeURLNoFTP(str) ==
    IF ~HasPrefix(str, SchemeHTTP) /\ ~HasPrefix(str, SchemeHTTPS)
    THEN SchemeHTTP \o str ELSE str

\* normalizeURL whose three prefix tests are joined by "or": one of them
\* always fails, so http:// is always prepended
normalizeURLAlways(str) ==
    IF ~HasPrefix(str, SchemeHTTP) \/ ~HasPrefix(str, SchemeHTTPS)
          \/ ~HasPrefix(str, SchemeFTP)
    THEN SchemeHTTP \o str ELSE str

\* normalizeURL that defaults to https://
normalizeURLSecure(str) ==
    IF ~HasScheme(str) THEN SchemeHTTPS \o str ELSE str

normalizeURL(str) ==
    IF ~HasScheme(str) THEN SchemeHTTP \o str ELSE str

(***************************************************************************)
(* generateShortCode: length characters of charset, one per random draw.   *)
(***************************************************************************)
charset ==
    <<"a", "b", "c", "d", "e", "f", "g", "h", "i", "j", "k", "l", "m",
      "n", "o", "p", "q", "r", "s", "t", "u", "v", "w", "x", "y", "z",
      "A", "B", "C", "D", "E", "F", "G", "H", "I", "J", "K", "L", "M",
      "N", "O", "P", "Q", "R", "S", "T", "U", "V", "W", "X", "Y", "Z",
      "0", "1", "2", "3", "4", "5", "6", "7", "8", "9">>

length == 6

\* the outcomes of the six rand.Int calls of one generateShortCode call: each
\* is a number in 0..61.  The calls sampled are the one that draws six zeros
\* and those that step through the range by a stride that reaches the letters
\* of both cases, the digits and the last index 61.
DrawStride == 41

Draws ==
    {[i \in 1..length |-> (d * DrawStride * i) % Len(charset)] : d \in 0..MaxDraw}

\* generateShortCode that fills one character less
generateShortCodeShort(draw) == [i \in 1..(length - 1) |-> charset[draw[i] + 1]]

generateShortCode(draw) == [i \in 1..length |-> charset[draw[i] + 1]]

(***************************************************************************)
(* Inputs of the callers.                                                  *)
(***************************************************************************)
UrlAB == <<"a", ".", "b">>
UrlNoDot == <<"a", "b">>
UrlCD == <<"c", ".", "d">>

\* raw URLs handed to CreateShortURL: scheme-less, with scheme, and rejected ones
RawURLs == {UrlAB, SchemeHTTP \o UrlAB, SchemeHTTPS \o UrlCD, UrlNoDot}

\* every code the generator can return
AllCodes == {generateShortCode(draw) : draw \in Draws}

\* short codes handed to GetOriginalURL and GetStats: in the table or not
LookupCodes == AllCodes

ErrInvalidURL == "invalid URL provided"
ErrNotFound == "short URL not found"

(***************************************************************************)
(* State.  A *URLMapping is identified with the key its record was stored  *)
(* under: records are allocated by CreateShortURL only, one per insertion. *)
(***************************************************************************)
VARIABLES
    storage,        \* us.storage: short code -> URLMapping
    mutex,          \* us.mutex: [writer: 0 or the holder, readers: set of holders]
    pc,             \* per caller: where it is in its current operation
    arg,            \* per caller: the argument of the current operation
    normalizedURL,  \* per caller: CreateShortURL's local normalizedURL
    shortCode,      \* per caller: CreateShortURL's local shortCode
    tmp,            \* per caller: the value AccessCount++ has loaded
    ret,            \* per caller: what its last completed operation returned
    calls,          \* number of operations invoked so far; also the clock
    created,        \* history: <<raw URL, code>> of each successful Create, in return order
    resolved,       \* history: per code, number of successful Resolves completed
    other,          \* a second *URLShortener, built by its own NewURLShortener call
    recentUrls,     \* web client: the list of the URLs shortened last
    localStorage    \* web client: the item 'recentUrls', as the list it is the JSON of

vars == <<storage, mutex, pc, arg, normalizedURL, shortCode, tmp, ret,
          calls, created, resolved, other, recentUrls, localStorage>>

\* URLMapping that counts the creation as the first access
URLMappingCounted(code, url, t) ==
    [ID |-> code, ShortCode |-> code, OriginalURL |-> url,
     CreatedAt |-> t, AccessCount |-> 1]

URLMapping(code, url, t) ==
    [ID |-> code, ShortCode |-> code, OriginalURL |-> url,
     CreatedAt |-> t, AccessCount |-> 0]

NoRet == [op |-> "none", err |-> "", val |-> <<>>]
Returned(op, err, val) == [op |-> op, err |-> err, val |-> val]

\* NewURLShortener: an empty table, an unlocked mutex
NewURLShortener ==
    /\ storage = <<>>
    /\ mutex = [writer |-> 0, readers |-> {}]

\* what NewURLShortener returns, as a value
NewInstance == [storage |-> <<>>, mutex |-> [writer |-> 0, readers |-> {}]]

Init ==
    /\ NewURLShortener
    /\ other = NewInstance
    /\ localStorage = <<>>
    /\ recentUrls = localStorage
    /\ pc = [p \in Procs |-> "idle"]
    /\ arg = [p \in Procs |-> <<>>]
    /\ normalizedURL = [p \in Procs |-> <<>>]
    /\ shortCode = [p \in Procs |-> <<>>]
    /\ tmp = [p \in Procs |-> 0]
    /\ ret = [p \in Procs |-> NoRet]
    /\ calls = 0
    /\ created = <<>>
    /\ resolved = [c \in AllCodes |-> 0]

(***************************************************************************)
(* sync.RWMutex.  Lock needs the mutex free of writer and readers, RLock   *)
(* needs it free of a writer.  A caller that has not got its lock yet has  *)
(* done nothing others can see, so a blocked Lock or RLock call is a step  *)
(* that is not taken yet; the order in which blocked callers are served    *)
(* is left open.                                                           *)
(***************************************************************************)
CanLock == mutex.writer = 0 /\ mutex.readers = {}
CanRLock == mutex.writer = 0
Lock(p) == [mutex EXCEPT !.writer = p]
Unlock(p) == [mutex EXCEPT !.writer = 0]
RLock(p) == [mutex EXCEPT !.readers = @ \cup {p}]
RUnlock(p) == [mutex EXCEPT !.readers = @ \ {p}]

\* Callers are anonymous goroutines: a new operation is run by the first
\* caller that is idle.
Free(p) ==
    /\ pc[p] = "idle"
    /\ \A q \in Procs : q < p => pc[q] # "idle"

\* a caller invokes an operation
Invoke(p, a) ==
    /\ Free(p)
    /\ calls < MaxCalls
    /\ calls' = calls + 1
    /\ arg' = [arg EXCEPT ![p] = a]
    /\ ret' = [ret EXCEPT ![p] = NoRet]

\* a caller returns: the locals of its call are gone
Return(p, r) ==
    /\ pc' = [pc EXCEPT ![p] = "idle"]
    /\ ret' = [ret EXCEPT ![p] = r]
    /\ arg' = [arg EXCEPT ![p] = <<>>]
    /\ normalizedURL' = [normalizedURL EXCEPT ![p] = <<>>]
    /\ shortCode' = [shortCode EXCEPT ![p] = <<>>]
    /\ tmp' = [tmp EXCEPT ![p] = 0]

(***************************************************************************)
(* CreateShortURL                                                          *)
(***************************************************************************)
\* the call up to its RLock: validation and normalisation, which return
\* before any lock is taken when the URL is rejected
CreateCall(p, originalURL) ==
    /\ Free(p)
    /\ calls < MaxCalls
    /\ calls' = calls + 1
    /\ IF ~isValidURL(originalURL)
       THEN /\ ret' = [ret EXCEPT ![p] = Returned("create", ErrInvalidURL, <<>>)]
            /\ UNCHANGED <<pc, arg, normalizedURL, mutex>>
       ELSE /\ normalizedURL' = [normalizedURL EXCEPT ![p] = normalizeURL(originalURL)]
            /\ arg' = [arg EXCEPT ![p] = originalURL]
            /\ ret' = [ret EXCEPT ![p] = NoRet]
            /\ CanRLock
            /\ mutex' = RLock(p)
            /\ pc' = [pc EXCEPT ![p] = "c_scan"]
    /\ UNCHANGED <<storage, shortCode, tmp, created, resolved,
                   other, recentUrls, localStorage>>

\* CreateScan that compares the records with the raw URL
CreateScanRaw(p) ==
    /\ pc[p] = "c_scan"
    /\ LET hits == {c \in DOMAIN storage : storage[c].OriginalURL = arg[p]}
       IN  IF hits # {}
           THEN \E c \in hits :
                  /\ Return(p, Returned("create", "", c))
                  /\ created' = Append(created, <<arg[p], storage[c].ShortCode>>)
           ELSE /\ pc' = [pc EXCEPT ![p] = "c_lock"]
                /\ UNCHANGED <<arg, normalizedURL, shortCode, tmp, ret, created>>
    /\ mutex' = RUnlock(p)
    /\ UNCHANGED <<storage, calls, resolved, other, recentUrls, localStorage>>

\* CreateScan that returns a rebuilt record on a hit
CreateScanRebuild(p) ==
    /\ pc[p] = "c_scan"
    /\ LET hits == {c \in DOMAIN storage : storage[c].OriginalURL = normalizedURL[p]}
       IN  IF hits # {}
           THEN \E c \in hits :
                  /\ Return(p, Returned("create", "", c))
                  /\ created' = Append(created, <<arg[p], storage[c].ShortCode>>)
                  /\ storage' = [storage EXCEPT ![c].AccessCount = 0]
           ELSE /\ pc' = [pc EXCEPT ![p] = "c_lock"]
                /\ UNCHANGED <<arg, normalizedURL, shortCode, tmp, ret, created, storage>>
    /\ mutex' = RUnlock(p)
    /\ UNCHANGED <<calls, resolved, other, recentUrls, localStorage>>

\* CreateScan that keeps the read lock on a miss, so that Lock is requested
\* by a holder of the read lock
CreateScanKeepRLock(p) ==
    /\ pc[p] = "c_scan"
    /\ LET hits == {c \in DOMAIN storage : storage[c].OriginalURL = normalizedURL[p]}
       IN  IF hits # {}
           THEN \E c \in hits :
                  /\ Return(p, Returned("create", "", c))
                  /\ created' = Append(created, <<arg[p], storage[c].ShortCode>>)
                  /\ mutex' = RUnlock(p)
           ELSE /\ pc' = [pc EXCEPT ![p] = "c_lock"]
                /\ UNCHANGED <<arg, normalizedURL, shortCode, tmp, ret, created, mutex>>
    /\ UNCHANGED <<storage, calls, resolved, other, recentUrls, localStorage>>

\* the dedup scan: the map is ranged over in an unspecified order, so the
\* record returned is any record with the URL
CreateScan(p) ==
    /\ pc[p] = "c_scan"
    /\ LET hits == {c \in DOMAIN storage : storage[c].OriginalURL = normalizedURL[p]}
       IN  IF hits # {}
           THEN \E c \in hits :
                  /\ Return(p, Returned("create", "", c))
                  /\ created' = Append(created, <<arg[p], storage[c].ShortCode>>)
           ELSE /\ pc' = [pc EXCEPT ![p] = "c_lock"]
                /\ UNCHANGED <<arg, normalizedURL, shortCode, tmp, ret, created>>
    /\ mutex' = RUnlock(p)
    /\ UNCHANGED <<storage, calls, resolved, other, recentUrls, localStorage>>

CreateLock(p) ==
    /\ pc[p] = "c_lock"
    /\ CanLock
    /\ mutex' = Lock(p)
    /\ pc' = [pc EXCEPT ![p] = "c_generate"]
    /\ UNCHANGED <<storage, arg, normalizedURL, shortCode, tmp, ret, calls,
                   created, resolved, other, recentUrls, localStorage>>

\* CreateGenerate that takes the first code, in the table or not
CreateGenerateNoRetry(p, draw) ==
    /\ pc[p] = "c_generate"
    /\ shortCode' = [shortCode EXCEPT ![p] = generateShortCode(draw)]
    /\ pc' = [pc EXCEPT ![p] = "c_insert"]
    /\ UNCHANGED <<storage, mutex, arg, normalizedURL, tmp, ret, calls,
                   created, resolved, other, recentUrls, localStorage>>

\* CreateGenerate that gives up on a collision
CreateGenerateFail(p, draw) ==
    /\ pc[p] = "c_generate"
    /\ IF generateShortCode(draw) \notin DOMAIN storage
       THEN /\ shortCode' = [shortCode EXCEPT ![p] = generateShortCode(draw)]
            /\ pc' = [pc EXCEPT ![p] = "c_insert"]
            /\ UNCHANGED <<mutex, arg, normalizedURL, tmp, ret>>
       ELSE /\ Return(p, Returned("create", "collision", <<>>))
            /\ mutex' = Unlock(p)
    /\ UNCHANGED <<storage, calls, created, resolved,
                   other, recentUrls, localStorage>>

\* one iteration of the generate-and-retry loop
CreateGenerate(p, draw) ==
    /\ pc[p] = "c_generate"
    /\ shortCode' = [shortCode EXCEPT ![p] = generateShortCode(draw)]
    /\ pc' = [pc EXCEPT ![p] =
                IF generateShortCode(draw) \notin DOMAIN storage
                THEN "c_insert" ELSE "c_generate"]
    /\ UNCHANGED <<storage, mutex, arg, normalizedURL, tmp, ret, calls,
                   created, resolved, other, recentUrls, localStorage>>

\* time.Now(): time is measured in operations invoked so far
Now == calls

Store(code, mapping) ==
    [c \in DOMAIN storage \cup {code} |-> IF c = code THEN mapping ELSE storage[c]]

\* CreateInsert that stores the URL as it was handed in
CreateInsertRaw(p) ==
    /\ pc[p] = "c_insert"
    /\ storage' = Store(shortCode[p], URLMapping(shortCode[p], arg[p], Now))
    /\ Return(p, Returned("create", "", shortCode[p]))
    /\ created' = Append(created, <<arg[p], shortCode[p]>>)
    /\ mutex' = Unlock(p)
    /\ UNCHANGED <<calls, resolved, other, recentUrls, localStorage>>

\* CreateInsert into a table that all shorteners share
CreateInsertGlobal(p) ==
    /\ pc[p] = "c_insert"
    /\ storage' = Store(shortCode[p], URLMapping(shortCode[p], normalizedURL[p], Now))
    /\ other' = [other EXCEPT !.storage = storage']
    /\ Return(p, Returned("create", "", shortCode[p]))
    /\ created' = Append(created, <<arg[p], shortCode[p]>>)
    /\ mutex' = Unlock(p)
    /\ UNCHANGED <<calls, resolved, recentUrls, localStorage>>

\* builds the record, stores it, returns it; the deferred Unlock runs
CreateInsert(p) ==
    /\ pc[p] = "c_insert"
    /\ storage' = Store(shortCode[p], URLMapping(shortCode[p], normalizedURL[p], Now))
    /\ Return(p, Returned("create", "", shortCode[p]))
    /\ created' = Append(created, <<arg[p], shortCode[p]>>)
    /\ mutex' = Unlock(p)
    /\ UNCHANGED <<calls, resolved, other, recentUrls, localStorage>>

(***************************************************************************)
(* GetOriginalURL                                                          *)
(***************************************************************************)
\* ResolveLock that takes the read lock
ResolveLockShared(p, code) ==
    /\ Invoke(p, code)
    /\ CanRLock
    /\ mutex' = RLock(p)
    /\ pc' = [pc EXCEPT ![p] = "g_lookup"]
    /\ UNCHANGED <<storage, normalizedURL, shortCode, tmp, created, resolved,
                   other, recentUrls, localStorage>>

\* the call up to the return of its Lock
ResolveLock(p, code) ==
    /\ Invoke(p, code)
    /\ CanLock
    /\ mutex' = Lock(p)
    /\ pc' = [pc EXCEPT ![p] = "g_lookup"]
    /\ UNCHANGED <<storage, normalizedURL, shortCode, tmp, created, resolved,
                   other, recentUrls, localStorage>>

\* the map lookup; on a hit, the load of mapping.AccessCount++
ResolveLookup(p) ==
    /\ pc[p] = "g_lookup"
    /\ IF arg[p] \notin DOMAIN storage
       THEN /\ Return(p, Returned("resolve", ErrNotFound, <<>>))
            /\ mutex' = Unlock(p)
       ELSE /\ tmp' = [tmp EXCEPT ![p] = storage[arg[p]].AccessCount]
            /\ pc' = [pc EXCEPT ![p] = "g_increment"]
            /\ UNCHANGED <<arg, normalizedURL, shortCode, ret, mutex>>
    /\ UNCHANGED <<storage, calls, created, resolved,
                   other, recentUrls, localStorage>>

\* ResolveIncrement that also restamps the record
ResolveIncrementStamp(p) ==
    /\ pc[p] = "g_increment"
    /\ storage' = [storage EXCEPT ![arg[p]].AccessCount = tmp[p] + 1,
                                  ![arg[p]].CreatedAt = Now]
    /\ Return(p, Returned("resolve", "", arg[p]))
    /\ resolved' = [resolved EXCEPT ![arg[p]] = @ + 1]
    /\ mutex' = Unlock(p)
    /\ UNCHANGED <<calls, created, other, recentUrls, localStorage>>

\* ResolveIncrement that counts the access twice
ResolveIncrementTwice(p) ==
    /\ pc[p] = "g_increment"
    /\ storage' = [storage EXCEPT ![arg[p]].AccessCount = tmp[p] + 2]
    /\ Return(p, Returned("resolve", "", arg[p]))
    /\ resolved' = [resolved EXCEPT ![arg[p]] = @ + 1]
    /\ mutex' = Unlock(p)
    /\ UNCHANGED <<calls, created, other, recentUrls, localStorage>>

\* ResolveIncrement that counts the access on every record of the table
ResolveIncrementAll(p) ==
    /\ pc[p] = "g_increment"
    /\ storage' = [c \in DOMAIN storage |->
                      [storage[c] EXCEPT !.AccessCount =
                          IF c = arg[p] THEN tmp[p] + 1 ELSE @ + 1]]
    /\ Return(p, Returned("resolve", "", arg[p]))
    /\ resolved' = [resolved EXCEPT ![arg[p]] = @ + 1]
    /\ mutex' = Unlock(p)
    /\ UNCHANGED <<calls, created, other, recentUrls, localStorage>>

\* the store of mapping.AccessCount++, the return and the deferred Unlock
ResolveIncrement(p) ==
    /\ pc[p] = "g_increment"
    /\ storage' = [storage EXCEPT ![arg[p]].AccessCount = tmp[p] + 1]
    /\ Return(p, Returned("resolve", "", arg[p]))
    /\ resolved' = [resolved EXCEPT ![arg[p]] = @ + 1]
    /\ mutex' = Unlock(p)
    /\ UNCHANGED <<calls, created, other, recentUrls, localStorage>>

(***************************************************************************)
(* GetStats                                                                *)
(***************************************************************************)
\* the call up to the return of its RLock
StatsRLock(p, code) ==
    /\ Invoke(p, code)
    /\ CanRLock
    /\ mutex' = RLock(p)
    /\ pc' = [pc EXCEPT ![p] = "s_lookup"]
    /\ UNCHANGED <<storage, normalizedURL, shortCode, tmp, created, resolved,
                   other, recentUrls, localStorage>>

\* StatsLookup without the test that the code is in the table
StatsLookupNoCheck(p) ==
    /\ pc[p] = "s_lookup"
    /\ Return(p, Returned("stats", "", arg[p]))
    /\ mutex' = RUnlock(p)
    /\ UNCHANGED <<storage, calls, created, resolved,
                   other, recentUrls, localStorage>>

\* StatsLookup that counts the access, as GetOriginalURL does
StatsLookupCounting(p) ==
    /\ pc[p] = "s_lookup"
    /\ Return(p, IF arg[p] \notin DOMAIN storage
                 THEN Returned("stats", ErrNotFound, <<>>)
                 ELSE Returned("stats", "", arg[p]))
    /\ storage' = IF arg[p] \notin DOMAIN storage
                  THEN storage
                  ELSE [storage EXCEPT ![arg[p]].AccessCount = @ + 1]
    /\ mutex' = RUnlock(p)
    /\ UNCHANGED <<calls, created, resolved, other, recentUrls, localStorage>>

\* StatsLookup whose not-found return leaves the read lock held
StatsLookupLeak(p) ==
    /\ pc[p] = "s_lookup"
    /\ IF arg[p] \notin DOMAIN storage
       THEN /\ Return(p, Returned("stats", ErrNotFound, <<>>))
            /\ mutex' = mutex
       ELSE /\ Return(p, Returned("stats", "", arg[p]))
            /\ mutex' = RUnlock(p)
    /\ UNCHANGED <<storage, calls, created, resolved,
                   other, recentUrls, localStorage>>

StatsLookup(p) ==
    /\ pc[p] = "s_lookup"
    /\ Return(p, IF arg[p] \notin DOMAIN storage
                 THEN Returned("stats", ErrNotFound, <<>>)
                 ELSE Returned("stats", "", arg[p]))
    /\ mutex' = RUnlock(p)
    /\ UNCHANGED <<storage, calls, created, resolved,
                   other, recentUrls, localStorage>>

(***************************************************************************)
(* getAllURLs                                                              *)
(***************************************************************************)
\* the sequences that list every element of the set S once
Orders(S) ==
    {seq \in [1..Cardinality(S) -> S] : \A x \in S : \E i \in DOMAIN seq : seq[i] = x}

\* ListRLock that takes no lock
ListRLockNone(p) ==
    /\ Invoke(p, <<>>)
    /\ pc' = [pc EXCEPT ![p] = "l_collect"]
    /\ UNCHANGED <<storage, mutex, normalizedURL, shortCode, tmp, created, resolved,
                   other, recentUrls, localStorage>>

\* the call up to the return of its RLock
ListRLock(p) ==
    /\ Invoke(p, <<>>)
    /\ CanRLock
    /\ mutex' = RLock(p)
    /\ pc' = [pc EXCEPT ![p] = "l_collect"]
    /\ UNCHANGED <<storage, normalizedURL, shortCode, tmp, created, resolved,
                   other, recentUrls, localStorage>>

\* appends every record of the map, in the map's iteration order
ListCollect(p) ==
    /\ pc[p] = "l_collect"
    /\ \E urls \in Orders(DOMAIN storage) : Return(p, Returned("list", "", urls))
    /\ mutex' = RUnlock(p)
    /\ UNCHANGED <<storage, calls, created, resolved,
                   other, recentUrls, localStorage>>

(***************************************************************************)
(* The same operations called on the second shortener.  The methods read   *)
(* and write the fields of their receiver and nothing else, so the steps   *)
(* are those above with "other" as the receiver; the labels start with o.  *)
(* The history variables follow the first shortener only.                  *)
(***************************************************************************)
OtherCreateCall(p, originalURL) ==
    /\ Free(p)
    /\ calls < MaxCalls
    /\ calls' = calls + 1
    /\ IF ~isValidURL(originalURL)
       THEN /\ ret' = [ret EXCEPT ![p] = Returned("create", ErrInvalidURL, <<>>)]
            /\ UNCHANGED <<pc, arg, normalizedURL, other>>
       ELSE /\ normalizedURL' = [normalizedURL EXCEPT ![p] = normalizeURL(originalURL)]
            /\ arg' = [arg EXCEPT ![p] = originalURL]
            /\ ret' = [ret EXCEPT ![p] = NoRet]
            /\ other.mutex.writer = 0
            /\ other' = [other EXCEPT !.mutex.readers = @ \cup {p}]
            /\ pc' = [pc EXCEPT ![p] = "o_scan"]
    /\ UNCHANGED <<storage, mutex, shortCode, tmp, created, resolved,
                   recentUrls, localStorage>>

OtherCreateScan(p) ==
    /\ pc[p] = "o_scan"
    /\ LET hits == {c \in DOMAIN other.storage :
                        other.storage[c].OriginalURL = normalizedURL[p]}
       IN  IF hits # {}
           THEN \E c \in hits : Return(p, Returned("create", "", c))
           ELSE /\ pc' = [pc EXCEPT ![p] = "o_lock"]
                /\ UNCHANGED <<arg, normalizedURL, shortCode, tmp, ret>>
    /\ other' = [other EXCEPT !.mutex.readers = @ \ {p}]
    /\ UNCHANGED <<storage, mutex, calls, created, resolved,
                   recentUrls, localStorage>>

OtherCreateLock(p) ==
    /\ pc[p] = "o_lock"
    /\ other.mutex.writer = 0 /\ other.mutex.readers = {}
    /\ other' = [other EXCEPT !.mutex.writer = p]
    /\ pc' = [pc EXCEPT ![p] = "o_generate"]
    /\ UNCHANGED <<storage, mutex, arg, normalizedURL, shortCode, tmp, ret, calls,
                   created, resolved, recentUrls, localStorage>>

OtherCreateGenerate(p, draw) ==
    /\ pc[p] = "o_generate"
    /\ shortCode' = [shortCode EXCEPT ![p] = generateShortCode(draw)]
    /\ pc' = [pc EXCEPT ![p] =
                IF generateShortCode(draw) \notin DOMAIN other.storage
                THEN "o_insert" ELSE "o_generate"]
    /\ UNCHANGED <<storage, mutex, arg, normalizedURL, tmp, ret, calls,
                   created, resolved, other, recentUrls, localStorage>>

OtherCreateInsert(p) ==
    /\ pc[p] = "o_insert"
    /\ other' =
          [other EXCEPT
              !.storage = [c \in DOMAIN other.storage \cup {shortCode[p]} |->
                              IF c = shortCode[p]
                              THEN URLMapping(shortCode[p], normalizedURL[p], Now)
                              ELSE other.storage[c]],
              !.mutex.writer = 0]
    /\ Return(p, Returned("create", "", shortCode[p]))
    /\ UNCHANGED <<storage, mutex, calls, created, resolved,
                   recentUrls, localStorage>>

OtherResolveLock(p, code) ==
    /\ Invoke(p, code)
    /\ other.mutex.writer = 0 /\ other.mutex.readers = {}
    /\ other' = [other EXCEPT !.mutex.writer = p]
    /\ pc' = [pc EXCEPT ![p] = "o_lookup"]
    /\ UNCHANGED <<storage, mutex, normalizedURL, shortCode, tmp, created, resolved,
                   recentUrls, localStorage>>

OtherResolveLookup(p) ==
    /\ pc[p] = "o_lookup"
    /\ IF arg[p] \notin DOMAIN other.storage
       THEN /\ Return(p, Returned("resolve", ErrNotFound, <<>>))
            /\ other' = [other EXCEPT !.mutex.writer = 0]
       ELSE /\ tmp' = [tmp EXCEPT ![p] = other.storage[arg[p]].AccessCount]
            /\ pc' = [pc EXCEPT ![p] = "o_increment"]
            /\ UNCHANGED <<arg, normalizedURL, shortCode, ret, other>>
    /\ UNCHANGED <<storage, mutex, calls, created, resolved,
                   recentUrls, localStorage>>

OtherResolveIncrement(p) ==
    /\ pc[p] = "o_increment"
    /\ other' = [other EXCEPT !.storage[arg[p]].AccessCount = tmp[p] + 1,
                              !.mutex.writer = 0]
    /\ Return(p, Returned("resolve", "", arg[p]))
    /\ UNCHANGED <<storage, mutex, calls, created, resolved,
                   recentUrls, localStorage>>

(***************************************************************************)
(* The web client's list of recent URLs.  The script starts with the list  *)
(* parsed from the localStorage item; addToRecentUrls is called with the   *)
(* response of each successful shorten request and writes the item back.   *)
(* JSON.stringify and JSON.parse take the list of records of strings to    *)
(* its text and back without loss, so the item is kept as the list.  The   *)
(* short codes are numbers: a code that is not in the list is the number   *)
(* of the call, a code that is in the list is taken from it.               *)
(***************************************************************************)
\* recentUrls.slice(0, 10)
MaxRecent == 10

\* number of addToRecentUrls calls made
MaxAdds == 12

\* Array.prototype.filter keeping the entries of another code
FilterOut(urls, code) == SelectSeq(urls, LAMBDA url : url.shortCode # code)

\* Array.prototype.slice(0, n)
Slice(urls, n) == SubSeq(urls, 1, IF Len(urls) < n THEN Len(urls) ELSE n)

\* addToRecentUrls that cuts the list before it puts the new entry in front
addToRecentUrlsSliceFirst(code) ==
    /\ calls < MaxAdds
    /\ calls' = calls + 1
    /\ LET urlData == [shortCode |-> code, createdAt |-> Now]
       IN  /\ recentUrls' = <<urlData>> \o Slice(FilterOut(recentUrls, code), MaxRecent)
           /\ localStorage' = recentUrls'
    /\ UNCHANGED <<storage, mutex, pc, arg, normalizedURL, shortCode, tmp, ret,
                   created, resolved, other>>

addToRecentUrls(code) ==
    /\ calls < MaxAdds
    /\ calls' = calls + 1
    /\ LET urlData == [shortCode |-> code, createdAt |-> Now]
       IN  /\ recentUrls' = Slice(<<urlData>> \o FilterOut(recentUrls, code), MaxRecent)
           /\ localStorage' = recentUrls'
    /\ UNCHANGED <<storage, mutex, pc, arg, normalizedURL, shortCode, tmp, ret,
                   created, resolved, other>>

\* the codes handed in: one that is not in the list, or that of the first,
\* the middle or the last entry of the list
RecentCodes ==
    {calls + 1} \cup
    {recentUrls[i].shortCode :
        i \in DOMAIN recentUrls \cap {1, (Len(recentUrls) + 1) \div 2, Len(recentUrls)}}

NextRecent == \E code \in RecentCodes : addToRecentUrls(code)

SpecRecent == Init /\ [][NextRecent]_vars

(***************************************************************************)
(* Specifications.                                                         *)
(***************************************************************************)
Next ==
    \E p \in Procs :
        \/ \E originalURL \in RawURLs : CreateCall(p, originalURL)
        \/ CreateScan(p)
        \/ CreateLock(p)
        \/ \E draw \in Draws : CreateGenerate(p, draw)
        \/ CreateInsert(p)
        \/ \E code \in LookupCodes : ResolveLock(p, code)
        \/ ResolveLookup(p)
        \/ ResolveIncrement(p)
        \/ \E code \in LookupCodes : StatsRLock(p, code)
        \/ StatsLookup(p)
        \/ ListRLock(p)
        \/ ListCollect(p)

Spec == Init /\ [][Next]_vars

\* one caller at a time: an operation is invoked only when none is in progress
Quiet == \A p \in Procs : pc[p] = "idle"

NextSeq ==
    \E p \in Procs :
        \/ Quiet /\ \E originalURL \in RawURLs : CreateCall(p, originalURL)
        \/ CreateScan(p)
        \/ CreateLock(p)
        \/ \E draw \in Draws : CreateGenerate(p, draw)
        \/ CreateInsert(p)
        \/ Quiet /\ \E code \in LookupCodes : ResolveLock(p, code)
        \/ ResolveLookup(p)
        \/ ResolveIncrement(p)
        \/ Quiet /\ \E code \in LookupCodes : StatsRLock(p, code)
        \/ StatsLookup(p)
        \/ Quiet /\ ListRLock(p)
        \/ ListCollect(p)

SpecSeq == Init /\ [][NextSeq]_vars

\* one URL in its three spellings: scheme-less, with http://, with https://
SchemeURLs ==
    {prefix \o x : prefix \in {<<>>, SchemeHTTP, SchemeHTTPS}, x \in {UrlAB, UrlCD}}

\* CreateShortURL called with the spellings, one call at a time, as
\* TestURLShortener_CreateShortURL does
NextScheme ==
    \E p \in Procs :
        \/ Quiet /\ \E originalURL \in SchemeURLs : CreateCall(p, originalURL)
        \/ CreateScan(p)
        \/ CreateLock(p)
        \/ \E draw \in Draws : CreateGenerate(p, draw)
        \/ CreateInsert(p)

SpecScheme == Init /\ [][NextScheme]_vars

\* the URL created in both shorteners, and a rejected one
TwoURLs == {UrlAB, UrlNoDot}

\* Create and Resolve called on either of two shorteners, by concurrent callers
NextTwo ==
    \E p \in Procs :
        \/ \E originalURL \in TwoURLs : CreateCall(p, originalURL)
        \/ CreateScan(p)
        \/ CreateLock(p)
        \/ \E draw \in Draws : CreateGenerate(p, draw)
        \/ CreateInsert(p)
        \/ \E code \in LookupCodes : ResolveLock(p, code)
        \/ ResolveLookup(p)
        \/ ResolveIncrement(p)
        \/ \E originalURL \in TwoURLs : OtherCreateCall(p, originalURL)
        \/ OtherCreateScan(p)
        \/ OtherCreateLock(p)
        \/ \E draw \in Draws : OtherCreateGenerate(p, draw)
        \/ OtherCreateInsert(p)
        \/ \E code \in LookupCodes : OtherResolveLock(p, code)
        \/ OtherResolveLookup(p)
        \/ OtherResolveIncrement(p)

SpecTwo == Init /\ [][NextTwo]_vars

(***************************************************************************)
(* isValidURL and normalizeURL called on their own, as TestIsValidURL and  *)
(* TestNormalizeURL do: arg is the string handed in, ret the result.  Each  *)
(* behaviour is one test case: one call, and for normalizeURL a second     *)
(* call on the result of the first.                                        *)
(***************************************************************************)
\* longest string body tried
MaxLen == 3

\* the characters url.Parse treats differently, a letter and a digit
BodyChars == {"a", "1", ".", ":", "/", "@", "?", " "}

Bodies == UNION {[1..n -> BodyChars] : n \in 0..MaxLen}

Prefixes ==
    {<<>>, SchemeHTTP, SchemeHTTPS, SchemeFTP, StrLocalhost, <<":", "/", "/">>}

TestStrings ==
    {prefix \o body : prefix \in Prefixes, body \in Bodies}
        \cup {StrInvalid, StrNotAValidURL, SchemeHTTP \o StrInvalid}

\* caller p has made no call yet
Fresh(p) == Free(p) /\ ret[p] = NoRet

IsValidURLCall(p, str) ==
    /\ Fresh(p)
    /\ arg' = [arg EXCEPT ![p] = str]
    /\ ret' = [ret EXCEPT ![p] = Returned("isValidURL", "", isValidURL(str))]
    /\ UNCHANGED <<storage, mutex, pc, normalizedURL, shortCode, tmp, calls,
                   created, resolved, other, recentUrls, localStorage>>

NormalizeURLCall(p, str) ==
    /\ Fresh(p)
    /\ arg' = [arg EXCEPT ![p] = str]
    /\ ret' = [ret EXCEPT ![p] = Returned("normalizeURL", "", normalizeURL(str))]
    /\ UNCHANGED <<storage, mutex, pc, normalizedURL, shortCode, tmp, calls,
                   created, resolved, other, recentUrls, localStorage>>

\* normalizeURL called on what normalizeURL has returned
NormalizeURLAgain(p) ==
    /\ Free(p)
    /\ ret[p].op = "normalizeURL"
    /\ arg' = [arg EXCEPT ![p] = ret[p].val]
    /\ ret' = [ret EXCEPT ![p] =
                  Returned("normalizeURL again", "", normalizeURL(ret[p].val))]
    /\ UNCHANGED <<storage, mutex, pc, normalizedURL, shortCode, tmp, calls,
                   created, resolved, other, recentUrls, localStorage>>

NextPure ==
    \E p \in Procs :
        \/ Fresh(p) /\ \E str \in TestStrings : IsValidURLCall(p, str)
        \/ Fresh(p) /\ \E str \in TestStrings : NormalizeURLCall(p, str)
        \/ NormalizeURLAgain(p)

SpecPure == Init /\ [][NextPure]_vars

\* CreateShortURL called once on a new shortener with any of the test strings
NextStore ==
    \E p \in Procs :
        \/ calls = 0 /\ \E originalURL \in TestStrings : CreateCall(p, originalURL)
        \/ CreateScan(p)
        \/ CreateLock(p)
        \/ \E draw \in Draws : CreateGenerate(p, draw)
        \/ CreateInsert(p)

SpecStore == Init /\ [][NextStore]_vars

(***************************************************************************)
(* The HTTP handlers.  A request is served by a goroutine that decodes it, *)
(* calls the shortener, and then, with no lock held, reads the fields of   *)
(* the *URLMapping it got back to build the response.  The steps of the    *)
(* shortener are those above; the labels differ because the caller goes on *)
(* to its handler instead of being done.  While the handler runs, ret is   *)
(* what the shortener returned to it; afterwards it is the response.  The  *)
(* handlers are those of POST /api/shorten, GET /{shortCode} and           *)
(* GET /api/stats/{shortCode}.                                             *)
(***************************************************************************)
\* a character outside ASCII (e with acute accent): its UTF-8 encoding is
\* the two bytes c3 a9
EAcute == "U+00E9"
UrlEB == <<EAcute, ".", "b">>

\* http.Redirect writes the Location header through hexEscapeNonASCII: every
\* byte outside ASCII becomes "%" and its two hexadecimal digits
RECURSIVE hexEscapeNonASCII(_)
hexEscapeNonASCII(s) ==
    IF s = <<>> THEN <<>>
    ELSE (IF Head(s) = EAcute
          THEN <<"%", "c", "3", "%", "a", "9">>
          ELSE <<Head(s)>>) \o hexEscapeNonASCII(Tail(s))

\* main: baseURL := "http://localhost:" + port
baseURL == SchemeHTTP \o StrLocalhost \o <<":", "8", "0", "8", "0">>

\* request bodies of POST /api/shorten: text that is not JSON, an object
\* without url (decoded as the empty string), and objects with a url
ShortenBodies ==
    {[json |-> FALSE, url |-> <<>>], [json |-> TRUE, url |-> <<>>]}
        \cup {[json |-> TRUE, url |-> u] :
                u \in {UrlAB, SchemeHTTPS \o UrlEB, UrlNoDot}}

Response(handler, status, body) ==
    [op |-> handler, err |-> "", val |-> [status |-> status, body |-> body]]

\* the shortener returns r to the handler of caller p, which goes on at label
HandlerGets(p, r, label) ==
    /\ pc' = [pc EXCEPT ![p] = label]
    /\ ret' = [ret EXCEPT ![p] = r]
    /\ normalizedURL' = [normalizedURL EXCEPT ![p] = <<>>]
    /\ shortCode' = [shortCode EXCEPT ![p] = <<>>]
    /\ tmp' = [tmp EXCEPT ![p] = 0]
    /\ UNCHANGED arg

\* createShortURLHandler up to the RLock of CreateShortURL
ShortenCall(p, body) ==
    /\ Free(p)
    /\ calls < MaxCalls
    /\ calls' = calls + 1
    /\ IF ~body.json \/ body.url = <<>> \/ ~isValidURL(body.url)
       THEN /\ ret' = [ret EXCEPT ![p] =
                  Response("createShortURLHandler", 400,
                           IF ~body.json THEN "Invalid JSON"
                           ELSE IF body.url = <<>> THEN "URL is required"
                           ELSE ErrInvalidURL)]
            /\ UNCHANGED <<pc, arg, normalizedURL, mutex>>
       ELSE /\ normalizedURL' = [normalizedURL EXCEPT ![p] = normalizeURL(body.url)]
            /\ arg' = [arg EXCEPT ![p] = body.url]
            /\ ret' = [ret EXCEPT ![p] = NoRet]
            /\ CanRLock
            /\ mutex' = RLock(p)
            /\ pc' = [pc EXCEPT ![p] = "hc_scan"]
    /\ UNCHANGED <<storage, shortCode, tmp, created, resolved,
                   other, recentUrls, localStorage>>

ShortenScan(p) ==
    /\ pc[p] = "hc_scan"
    /\ LET hits == {c \in DOMAIN storage : storage[c].OriginalURL = normalizedURL[p]}
       IN  IF hits # {}
           THEN \E c \in hits :
                  /\ HandlerGets(p, Returned("create", "", c), "hc_respond")
                  /\ created' = Append(created, <<arg[p], storage[c].ShortCode>>)
           ELSE /\ pc' = [pc EXCEPT ![p] = "hc_lock"]
                /\ UNCHANGED <<arg, normalizedURL, shortCode, tmp, ret, created>>
    /\ mutex' = RUnlock(p)
    /\ UNCHANGED <<storage, calls, resolved, other, recentUrls, localStorage>>

ShortenLock(p) ==
    /\ pc[p] = "hc_lock"
    /\ CanLock
    /\ mutex' = Lock(p)
    /\ pc' = [pc EXCEPT ![p] = "hc_generate"]
    /\ UNCHANGED <<storage, arg, normalizedURL, shortCode, tmp, ret, calls,
                   created, resolved, other, recentUrls, localStorage>>

ShortenGenerate(p, draw) ==
    /\ pc[p] = "hc_generate"
    /\ shortCode' = [shortCode EXCEPT ![p] = generateShortCode(draw)]
    /\ pc' = [pc EXCEPT ![p] =
                IF generateShortCode(draw) \notin DOMAIN storage
                THEN "hc_insert" ELSE "hc_generate"]
    /\ UNCHANGED <<storage, mutex, arg, normalizedURL, tmp, ret, calls,
                   created, resolved, other, recentUrls, localStorage>>

ShortenInsert(p) ==
    /\ pc[p] = "hc_insert"
    /\ storage' = Store(shortCode[p], URLMapping(shortCode[p], normalizedURL[p], Now))
    /\ HandlerGets(p, Returned("create", "", shortCode[p]), "hc_respond")
    /\ created' = Append(created, <<arg[p], shortCode[p]>>)
    /\ mutex' = Unlock(p)
    /\ UNCHANGED <<calls, resolved, other, recentUrls, localStorage>>

\* ShortenRespond that answers with the url of the request
ShortenRespondRaw(p) ==
    /\ pc[p] = "hc_respond"
    /\ LET mapping == storage[ret[p].val]
       IN  Return(p, Response("createShortURLHandler", 200,
                     [short_code |-> mapping.ShortCode,
                      original_url |-> arg[p],
                      short_url |-> baseURL \o <<"/">> \o mapping.ShortCode]))
    /\ UNCHANGED <<storage, mutex, calls, created, resolved,
                   other, recentUrls, localStorage>>

\* builds CreateURLResponse from the fields of mapping and encodes it
ShortenRespond(p) ==
    /\ pc[p] = "hc_respond"
    /\ LET mapping == storage[ret[p].val]
       IN  Return(p, Response("createShortURLHandler", 200,
                     [short_code |-> mapping.ShortCode,
                      original_url |-> mapping.OriginalURL,
                      short_url |-> baseURL \o <<"/">> \o mapping.ShortCode]))
    /\ UNCHANGED <<storage, mutex, calls, created, resolved,
                   other, recentUrls, localStorage>>

\* redirectHandler up to the return of the Lock of GetOriginalURL
RedirectCall(p, code) ==
    /\ Invoke(p, code)
    /\ CanLock
    /\ mutex' = Lock(p)
    /\ pc' = [pc EXCEPT ![p] = "hr_lookup"]
    /\ UNCHANGED <<storage, normalizedURL, shortCode, tmp, created, resolved,
                   other, recentUrls, localStorage>>

RedirectLookup(p) ==
    /\ pc[p] = "hr_lookup"
    /\ IF arg[p] \notin DOMAIN storage
       THEN /\ Return(p, Response("redirectHandler", 404, "Short URL not found"))
            /\ mutex' = Unlock(p)
       ELSE /\ tmp' = [tmp EXCEPT ![p] = storage[arg[p]].AccessCount]
            /\ pc' = [pc EXCEPT ![p] = "hr_increment"]
            /\ UNCHANGED <<arg, normalizedURL, shortCode, ret, mutex>>
    /\ UNCHANGED <<storage, calls, created, resolved,
                   other, recentUrls, localStorage>>

\* RedirectIncrement that does not store the count
RedirectIncrementNone(p) ==
    /\ pc[p] = "hr_increment"
    /\ HandlerGets(p, Returned("resolve", "", arg[p]), "hr_respond")
    /\ resolved' = [resolved EXCEPT ![arg[p]] = @ + 1]
    /\ mutex' = Unlock(p)
    /\ UNCHANGED <<storage, calls, created, other, recentUrls, localStorage>>

RedirectIncrement(p) ==
    /\ pc[p] = "hr_increment"
    /\ storage' = [storage EXCEPT ![arg[p]].AccessCount = tmp[p] + 1]
    /\ HandlerGets(p, Returned("resolve", "", arg[p]), "hr_respond")
    /\ resolved' = [resolved EXCEPT ![arg[p]] = @ + 1]
    /\ mutex' = Unlock(p)
    /\ UNCHANGED <<calls, created, other, recentUrls, localStorage>>

\* http.Redirect(w, r, mapping.OriginalURL, http.StatusMovedPermanently)
RedirectRespond(p) ==
    /\ pc[p] = "hr_respond"
    /\ Return(p, Response("redirectHandler", 301,
                 [Location |-> hexEscapeNonASCII(storage[ret[p].val].OriginalURL)]))
    /\ UNCHANGED <<storage, mutex, calls, created, resolved,
                   other, recentUrls, localStorage>>

\* statsHandler up to the return of the RLock of GetStats
StatsHandlerCall(p, code) ==
    /\ Invoke(p, code)
    /\ CanRLock
    /\ mutex' = RLock(p)
    /\ pc' = [pc EXCEPT ![p] = "hs_lookup"]
    /\ UNCHANGED <<storage, normalizedURL, shortCode, tmp, created, resolved,
                   other, recentUrls, localStorage>>

StatsHandlerLookup(p) ==
    /\ pc[p] = "hs_lookup"
    /\ IF arg[p] \notin DOMAIN storage
       THEN Return(p, Response("statsHandler", 404, "Short URL not found"))
       ELSE HandlerGets(p, Returned("stats", "", arg[p]), "hs_respond")
    /\ mutex' = RUnlock(p)
    /\ UNCHANGED <<storage, calls, created, resolved,
                   other, recentUrls, localStorage>>

\* builds URLStats from the fields of mapping and encodes it
StatsHandlerRespond(p) ==
    /\ pc[p] = "hs_respond"
    /\ LET mapping == storage[ret[p].val]
       IN  Return(p, Response("statsHandler", 200,
                     [short_code |-> mapping.ShortCode,
                      original_url |-> mapping.OriginalURL,
                      created_at |-> mapping.CreatedAt,
                      access_count |-> mapping.AccessCount]))
    /\ UNCHANGED <<storage, mutex, calls, created, resolved,
                   other, recentUrls, localStorage>>

NextHTTP ==
    \E p \in Procs :
        \/ \E body \in ShortenBodies : ShortenCall(p, body)
        \/ ShortenScan(p)
        \/ ShortenLock(p)
        \/ \E draw \in Draws : ShortenGenerate(p, draw)
        \/ ShortenInsert(p)
        \/ ShortenRespond(p)
        \/ \E code \in LookupCodes : RedirectCall(p, code)
        \/ RedirectLookup(p)
        \/ RedirectIncrement(p)
        \/ RedirectRespond(p)
        \/ \E code \in LookupCodes : StatsHandlerCall(p, code)
        \/ StatsHandlerLookup(p)
        \/ StatsHandlerRespond(p)

SpecHTTP == Init /\ [][NextHTTP]_vars

(***************************************************************************)
(* Properties.                                                             *)
(***************************************************************************)
\* the canonical form the specification gives a URL: unchanged when it starts
\* with http://, https:// or ftp://, http:// prepended otherwise
Canonical(u) ==
    IF \/ HasPrefix(u, <<"h", "t", "t", "p", ":", "/", "/">>)
       \/ HasPrefix(u, <<"h", "t", "t", "p", "s", ":", "/", "/">>)
       \/ HasPrefix(u, <<"f", "t", "p", ":", "/", "/">>)
    THEN u
    ELSE <<"h", "t", "t", "p", ":", "/", "/">> \o u

\* the records of the table whose OriginalURL is url
RecordsOf(url) == {c \in DOMAIN storage : storage[c].OriginalURL = url}

\* caller p is inside GetOriginalURL
Resolving(p) == pc[p] \in {"g_lookup", "g_increment"}

\* caller p takes a step
Moves(p) == pc'[p] # pc[p] \/ ret'[p] # ret[p] \/ shortCode'[p] # shortCode[p]

\* C1: concurrent Creates of the identical URL all receive the same code:
\* any two successful Creates of one raw URL returned the same code.
C1_ConcurrentSameCode ==
    \A i, j \in DOMAIN created :
        created[i][1] = created[j][1] => created[i][2] = created[j][2]

\* C2: deduplication invariant: the table never holds two records with the
\* same canonical URL.
C2_OneRecordPerURL ==
    \A c1, c2 \in DOMAIN storage :
        storage[c1].OriginalURL = storage[c2].OriginalURL => c1 = c2

\* C3: with one caller at a time, every successful Create of a URL u returns
\* the code the earlier Creates of u returned, and the table holds exactly
\* one record whose OriginalURL is the canonical form of u.
C3_SequentialDedup ==
    \A i \in DOMAIN created :
        /\ Cardinality(RecordsOf(Canonical(created[i][1]))) = 1
        /\ \A j \in DOMAIN created :
              created[i][1] = created[j][1] => created[i][2] = created[j][2]

C3_Witness ==
    /\ Quiet
    /\ \E i, j \in DOMAIN created :
          /\ i < j
          /\ created[i][1] = created[j][1]
          /\ created[i][2] = created[j][2]

\* C4: whenever no Resolve is in progress, every record's AccessCount equals
\* the number of successful Resolves completed for its code.
C4_CounterExact ==
    (\A p \in Procs : ~Resolving(p)) =>
        \A c \in DOMAIN storage : storage[c].AccessCount = resolved[c]

C4_Witness ==
    /\ \A p \in Procs : ~Resolving(p)
    /\ \E c \in DOMAIN storage : resolved[c] = 2 /\ storage[c].AccessCount = 2

\* C5: every record is stored under its own code, no step replaces or
\* removes a record that is in the table (a code is inserted only when it
\* is absent), and Creates of distinct canonical URLs return distinct codes.
C5_KeyIsCode ==
    /\ \A c \in DOMAIN storage : storage[c].ShortCode = c /\ storage[c].ID = c
    /\ \A i, j \in DOMAIN created :
          Canonical(created[i][1]) # Canonical(created[j][1])
              => created[i][2] # created[j][2]

C5_NoOverwrite ==
    \A c \in DOMAIN storage :
        /\ c \in DOMAIN storage'
        /\ storage'[c].OriginalURL = storage[c].OriginalURL
        /\ storage'[c].CreatedAt = storage[c].CreatedAt
        /\ storage'[c].ShortCode = storage[c].ShortCode

\* C5: the invariant in every state and the no-overwrite rule in every step
C5_CodeUniqueness == []C5_KeyIsCode /\ [][C5_NoOverwrite]_vars

C5_Witness ==
    /\ Quiet
    /\ \E i, j \in DOMAIN created :
          /\ Canonical(created[i][1]) # Canonical(created[j][1])
          /\ created[i][2] # created[j][2]
          /\ {created[i][2], created[j][2]} \subseteq DOMAIN storage

\* C6: the first successful Resolve of a code c that a Create of u returned
\* returns the record of c, whose OriginalURL is the canonical form of u, and
\* takes its AccessCount from 0 to 1.
C6_Step ==
    \A p \in Procs :
        (/\ pc[p] = "g_increment"
         /\ pc'[p] = "idle"
         /\ resolved[arg[p]] = 0)
        => /\ ret'[p] = Returned("resolve", "", arg[p])
           /\ storage[arg[p]].AccessCount = 0
           /\ storage'[arg[p]].AccessCount = 1
           /\ \A i \in DOMAIN created :
                 created[i][2] = arg[p]
                     => storage'[arg[p]].OriginalURL = Canonical(created[i][1])

\* C6: the round trip holds of every step that completes a first Resolve
C6_RoundTrip == [][C6_Step]_vars

C6_Witness ==
    \E p \in Procs :
        /\ ret[p].op = "resolve"
        /\ ret[p].err = ""
        /\ resolved[ret[p].val] = 1
        /\ storage[ret[p].val].AccessCount = 1
        /\ storage[ret[p].val].OriginalURL =
              <<"h", "t", "t", "p", ":", "/", "/", "a", ".", "b">>
        /\ \E i \in DOMAIN created : created[i] = <<UrlAB, ret[p].val>>

\* C7: a Resolve or a Stats of a code that has no record returns the
\* not-found error and no record, and no step of it changes the table.
C7_Step ==
    \A p \in Procs :
        /\ (/\ pc[p] \in {"g_lookup", "s_lookup"}
            /\ arg[p] \notin DOMAIN storage
            /\ Moves(p))
           => /\ pc'[p] = "idle"
              /\ ret'[p].err = ErrNotFound
              /\ ret'[p].val = <<>>
              /\ storage' = storage
        /\ (pc[p] = "idle" /\ pc'[p] \in {"g_lookup", "s_lookup"})
           => storage' = storage

\* C7: the not-found behaviour holds of every step of Resolve and Stats
C7_NotFound == [][C7_Step]_vars

C7_Witness ==
    \E p, q \in Procs :
        /\ ret[p] = Returned("resolve", ErrNotFound, <<>>)
        /\ ret[q] = Returned("stats", ErrNotFound, <<>>)
        /\ storage # <<>>

\* C8: a Create of a URL that is not valid (here the host without a dot)
\* returns the invalid-URL error and no record at once, and changes neither
\* the table nor the mutex.
C8_Step ==
    \A p \in Procs :
        CreateCall(p, UrlNoDot)
        => /\ ret'[p] = Returned("create", ErrInvalidURL, <<>>)
           /\ pc'[p] = "idle"
           /\ storage' = storage
           /\ mutex' = mutex
           /\ created' = created

\* C8: every Create of the rejected URL is such a step
C8_InvalidInput == [][C8_Step]_vars

C8_Witness ==
    \E p \in Procs :
        /\ ret[p] = Returned("create", ErrInvalidURL, <<>>)
        /\ storage # <<>>

\* C9: a step that changes the AccessCount of a record is the increment of
\* a Resolve of that record's code; Stats, ListAll and Create change none.
C9_Step ==
    \A c \in DOMAIN storage :
        (c \in DOMAIN storage' /\ storage'[c].AccessCount # storage[c].AccessCount)
        => \E p \in Procs :
              /\ pc[p] = "g_increment"
              /\ arg[p] = c
              /\ pc'[p] = "idle"

\* C9: only the increment of a Resolve changes an AccessCount
C9_OnlyResolveCounts == [][C9_Step]_vars

C9_Witness ==
    \E p \in Procs :
        /\ ret[p].op = "stats"
        /\ ret[p].err = ""
        /\ storage[ret[p].val].AccessCount = 1
        /\ resolved[ret[p].val] = 1

\* C10: a Create whose scan finds a record for its URL returns that record
\* and leaves the table as it was (no record added, no count reset), and
\* goes straight back to idle without taking the write lock.
C10_Step ==
    \A p \in Procs :
        (/\ pc[p] = "c_scan"
         /\ Moves(p)
         /\ RecordsOf(normalizedURL[p]) # {})
        => /\ pc'[p] = "idle"
           /\ ret'[p].op = "create"
           /\ ret'[p].err = ""
           /\ ret'[p].val \in RecordsOf(normalizedURL[p])
           /\ storage' = storage
           /\ mutex'.writer = 0

\* C10: every dedup hit is a no-op on the table
C10_DedupHitNoOp == [][C10_Step]_vars

C10_Witness ==
    \E p \in Procs :
        /\ ret[p].op = "create"
        /\ ret[p].err = ""
        /\ storage[ret[p].val].AccessCount = 1
        /\ \E i, j \in DOMAIN created :
              i < j /\ created[i][2] = ret[p].val /\ created[j][2] = ret[p].val

(***************************************************************************)
(* The sequential operations of the specification, as relations between    *)
(* the table before, the table after and the value returned.               *)
(***************************************************************************)
\* the atomic find-or-insert: the record of the canonical URL when there is
\* one, a fresh record under an unused code otherwise
AtomicCreate(u, r) ==
    /\ r.op = "create"
    /\ r.err = ""
    /\ \/ /\ r.val \in RecordsOf(Canonical(u))
          /\ storage' = storage
       \/ /\ RecordsOf(Canonical(u)) = {}
          /\ r.val \notin DOMAIN storage
          /\ DOMAIN storage' = DOMAIN storage \cup {r.val}
          /\ \A c \in DOMAIN storage : storage'[c] = storage[c]
          /\ storage'[r.val].OriginalURL = Canonical(u)
          /\ storage'[r.val].ShortCode = r.val
          /\ storage'[r.val].AccessCount = 0

AtomicResolve(c, r) ==
    /\ r.op = "resolve"
    /\ IF c \in DOMAIN storage
       THEN /\ r.err = ""
            /\ r.val = c
            /\ storage' = [storage EXCEPT ![c].AccessCount = @ + 1]
       ELSE /\ r.err = ErrNotFound
            /\ storage' = storage

AtomicStats(c, r) ==
    /\ r.op = "stats"
    /\ storage' = storage
    /\ IF c \in DOMAIN storage
       THEN r.err = "" /\ r.val = c
       ELSE r.err = ErrNotFound

AtomicList(r) ==
    /\ r.op = "list"
    /\ r.err = ""
    /\ storage' = storage
    /\ {r.val[i] : i \in DOMAIN r.val} = DOMAIN storage
    /\ Len(r.val) = Cardinality(DOMAIN storage)

\* caller p returns in this step
Returns(p) == pc[p] # "idle" /\ pc'[p] = "idle"

\* C11: every execution is equivalent to a sequential execution of the
\* atomic operations that respects real-time order: each call takes effect
\* at one instant between its invocation and its return.  The instant is the
\* step in which the call returns: that step changes the table and returns
\* what the atomic operation does on the table as it is then, and no other
\* step changes the table.
C11_Step ==
    /\ (\A p \in Procs : ~Returns(p)) => storage' = storage
    /\ \A p \in Procs :
         Returns(p) =>
            CASE pc[p] \in {"c_scan", "c_insert"} -> AtomicCreate(arg[p], ret'[p])
              [] pc[p] \in {"g_lookup", "g_increment"} -> AtomicResolve(arg[p], ret'[p])
              [] pc[p] = "s_lookup" -> AtomicStats(arg[p], ret'[p])
              [] pc[p] = "l_collect" -> AtomicList(ret'[p])

C11_Linearizable == [][C11_Step]_vars

(***************************************************************************)
(* Fair scheduling.  A goroutine that can take its next step takes it; a   *)
(* goroutine blocked in Lock gets the mutex when it is free again and      *)
(* again (sync.RWMutex does not starve a writer); rand.Int yields each of  *)
(* its outcomes again and again.  Nothing obliges a new call to be made.   *)
(***************************************************************************)
Fairness ==
    \A p \in Procs :
        /\ WF_vars(CreateScan(p))
        /\ SF_vars(CreateLock(p))
        /\ \A draw \in Draws : WF_vars(CreateGenerate(p, draw))
        /\ WF_vars(CreateInsert(p))
        /\ WF_vars(ResolveLookup(p))
        /\ WF_vars(ResolveIncrement(p))
        /\ WF_vars(StatsLookup(p))
        /\ WF_vars(ListCollect(p))

SpecFair == Spec /\ Fairness

\* C12: under fair scheduling every operation in progress returns; in
\* particular a Create that has entered its generate-and-retry loop leaves it.
C12_EveryCallReturns ==
    \A p \in Procs : (pc[p] # "idle") ~> (pc[p] = "idle")

\* caller p holds the mutex, in either mode
Holds(p) == mutex.writer = p \/ p \in mutex.readers

\* caller p is blocked in a Lock call
Blocked(p) == pc[p] = "c_lock" /\ ~CanLock

\* C13: never are all operations in progress waiting for the mutex; a caller
\* that requests the mutex (at the entry of an operation, or at the Lock of
\* CreateShortURL after its scan) holds it in no mode, and no caller holds it
\* in two modes at once.
C13_DeadlockFree ==
    /\ (\E p \in Procs : pc[p] # "idle") =>
          \E p \in Procs : pc[p] # "idle" /\ ~Blocked(p)
    /\ \A p \in Procs : pc[p] \in {"idle", "c_lock"} => ~Holds(p)
    /\ \A p \in Procs : ~(mutex.writer = p /\ p \in mutex.readers)
    /\ mutex.writer # 0 => mutex.readers = {}

\* a Create waits at its Lock while another caller holds the mutex
C13_Witness ==
    \E p, q \in Procs : p # q /\ Blocked(p) /\ Holds(q)

\* what caller p reads through the value its last operation returned: the
\* record the returned *URLMapping points to, or the records the returned
\* slice points to
Held(p) ==
    CASE ret[p].op = "none" \/ ret[p].err # "" -> <<>>
      [] ret[p].op = "list" -> [i \in DOMAIN ret[p].val |-> storage[ret[p].val[i]]]
      [] OTHER -> storage[ret[p].val]

\* C14: the record value a caller received from Stats or ListAll (and from
\* Create or Resolve) does not change after the call has returned: as long as
\* the caller keeps what the call returned, no step of another operation
\* changes what the caller reads in it.
C14_Step ==
    \A p \in Procs :
        (ret[p].op # "none" /\ ret[p].err = "" /\ ret'[p] = ret[p]) =>
            Held(p)' = Held(p)

C14_Snapshot == [][C14_Step]_vars

\* the count read through the *URLMapping that GetOriginalURL(c) returned:
\* the pointer is the one stored in the map
Observed(c) == storage[c].AccessCount

\* C15: the AccessCount a caller observes in the record a successful Resolve
\* returned is the count right after that call's own increment: the k-th
\* Resolve of a code to return leaves k in the record it returns, and the
\* caller, which reads the record at some moment after the return, still
\* finds k there, whatever other Resolves have done in between.
C15_Step ==
    /\ \A p \in Procs, c \in DOMAIN storage :
         (pc[p] = "g_increment" /\ pc'[p] = "idle" /\ arg[p] = c) =>
            /\ ret'[p] = Returned("resolve", "", c)
            /\ Observed(c)' = resolved'[c]
    /\ \A c \in DOMAIN storage :
         resolved[c] > 0 => Observed(c)' = Observed(c)

C15_ObservesOwnCount == [][C15_Step]_vars

\* C16: the record a Create inserts is stored under a code that was not in
\* the table, with the canonical form of the URL and AccessCount 0; and the
\* record any successful Create returns has AccessCount 0 as long as no
\* Resolve of its code has succeeded.
C16_Step ==
    \A p \in Procs, c \in AllCodes :
        /\ (pc[p] = "c_insert" /\ pc'[p] = "idle" /\ shortCode[p] = c) =>
              /\ ret'[p] = Returned("create", "", c)
              /\ c \notin DOMAIN storage
              /\ storage'[c].OriginalURL = Canonical(arg[p])
              /\ storage'[c].AccessCount = 0
        /\ ( /\ pc[p] \in {"c_scan", "c_insert"} /\ pc'[p] = "idle"
             /\ ret'[p] = Returned("create", "", c)
             /\ resolved'[c] = 0 ) =>
              storage'[c].AccessCount = 0

C16_InitialRecord == [][C16_Step]_vars

\* a Create has inserted a record and a second Create has returned the same
\* record, which no Resolve has touched
C16_Witness ==
    /\ Len(created) >= 2
    /\ created[1][2] = created[2][2]
    /\ resolved[created[1][2]] = 0
    /\ storage[created[1][2]].AccessCount = 0
    /\ \E p \in Procs : ret[p] = Returned("create", "", created[2][2])

\* the 62 symbols of the specification: a-z, A-Z, 0-9
Alphabet ==
    {"a", "b", "c", "d", "e", "f", "g", "h", "i", "j", "k", "l", "m",
     "n", "o", "p", "q", "r", "s", "t", "u", "v", "w", "x", "y", "z"}
    \cup {"A", "B", "C", "D", "E", "F", "G", "H", "I", "J", "K", "L", "M",
          "N", "O", "P", "Q", "R", "S", "T", "U", "V", "W", "X", "Y", "Z"}
    \cup {"0", "1", "2", "3", "4", "5", "6", "7", "8", "9"}

WellFormedCode(c) ==
    /\ DOMAIN c = 1..6
    /\ \A i \in DOMAIN c : c[i] \in Alphabet

\* C17: every code a Create returned and every key of the table is exactly 6
\* characters long, each of them one of the 62 symbols a-z, A-Z, 0-9.
C17_CodeShape ==
    /\ Cardinality(Alphabet) = 62
    /\ \A c \in DOMAIN storage : WellFormedCode(c)
    /\ \A i \in DOMAIN created : WellFormedCode(created[i][2])
    /\ \A p \in Procs :
         (ret[p].op = "create" /\ ret[p].err = "") => WellFormedCode(ret[p].val)

\* two codes are in the table, one of them with a capital letter and a
\* digit, and a Create has returned it
C17_Witness ==
    /\ Cardinality(DOMAIN storage) >= 2
    /\ \E i \in DOMAIN created :
         /\ created[i][2] \in DOMAIN storage
         /\ \E j, k \in 1..6 :
              /\ created[i][2][j] \in {"A", "P", "Z"}
              /\ created[i][2][k] \in Digits

(***************************************************************************)
(* The validator and the normalizer.                                       *)
(***************************************************************************)
\* the host of a string: that of its canonical form, between "//" and the
\* first "/", "?" or "#", after the last "@"
HostOf(x) == ParseHost(Canonical(x))

\* the strings the claim says are rejected
C18_Rejected(x) ==
    \/ x = <<>>
    \/ HasPrefix(x, <<":", "/", "/">>)
    \/ HostOf(x) = <<>>
    \/ Contains(HostOf(x), " ")
    \/ HostOf(x) # <<"l", "o", "c", "a", "l", "h", "o", "s", "t">>
          /\ ~Contains(HostOf(x), ".")
    \/ x = <<"i", "n", "v", "a", "l", "i", "d">>
    \/ x = <<"n", "o", "t", "-", "a", "-", "v", "a", "l", "i", "d", "-", "u", "r", "l">>
    \/ x = <<"h", "t", "t", "p", ":", "/", "/">>

\* url.Parse accepts the canonical form of x: no space before the path, and
\* nothing but digits after the last ":" of the host
C18_Parses(x) ==
    LET authority == ParseAuthority(Canonical(x))
        host == HostOf(x)
        colon == LastIndex(host, ":")
    IN  /\ ~Contains(authority, " ")
        /\ \A i \in (colon + 1)..Len(host) : colon > 0 => host[i] \in Digits

\* C18 as stated: isValidURL returns false for the empty string, for a
\* string that starts with "://", for a string whose host is empty, has a
\* space, or neither is localhost nor has a ".", and for "invalid",
\* "not-a-valid-url" and "http://"; and it returns true for every other
\* string whose host has a ".".
C18_ValidationBoundary ==
    \A p \in Procs :
        ret[p].op = "isValidURL" =>
            /\ C18_Rejected(arg[p]) => ret[p].val = FALSE
            /\ (~C18_Rejected(arg[p]) /\ Contains(HostOf(arg[p]), ".")) =>
                  ret[p].val = TRUE

\* C18 amended: isValidURL returns true exactly for the strings that are not
\* rejected as above and whose canonical form url.Parse accepts.
C18_ValidationAmended ==
    \A p \in Procs :
        ret[p].op = "isValidURL" =>
            (ret[p].val = TRUE <=> (~C18_Rejected(arg[p]) /\ C18_Parses(arg[p])))

\* isValidURL has rejected ".:a", whose host has a "." and whose port is
\* not a number
C18_Witness ==
    \E p \in Procs :
        /\ arg[p] = <<".", ":", "a">>
        /\ ret[p] = Returned("isValidURL", "", FALSE)

\* C19: normalizeURL returns its argument unchanged when it starts with
\* http://, https:// or ftp://, and returns http:// followed by its argument
\* otherwise.
C19_NormalizeDefinition ==
    \A p \in Procs :
        ret[p].op = "normalizeURL" =>
            /\ ret[p].val = Canonical(arg[p])
            /\ Len(ret[p].val) \in {Len(arg[p]), Len(arg[p]) + 7}

\* normalizeURL has returned a string that starts with ftp:// as it was, and
\* it has put http:// before a string that starts with "://"
C19_Witness ==
    \E p \in Procs :
        /\ ret[p].op = "normalizeURL"
        /\ \/ /\ HasPrefix(arg[p], <<"f", "t", "p", ":", "/", "/", "a">>)
              /\ ret[p].val = arg[p]
           \/ /\ arg[p] = <<":", "/", "/", "a">>
              /\ ret[p].val = <<"h", "t", "t", "p", ":", "/", "/", ":", "/", "/", "a">>

\* C20: normalizeURL applied to a result of normalizeURL returns that result.
C20_NormalizeIdempotent ==
    \A p \in Procs :
        ret[p].op = "normalizeURL again" => ret[p].val = arg[p]

\* normalizeURL has been applied to http://a.1, the result of normalizeURL
\* for a.1
C20_Witness ==
    \E p \in Procs :
        /\ ret[p].op = "normalizeURL again"
        /\ arg[p] = <<"h", "t", "t", "p", ":", "/", "/", "a", ".", "1">>
        /\ ret[p].val = arg[p]

(***************************************************************************)
(* The HTTP endpoints.                                                     *)
(***************************************************************************)
\* what a client gets back from a Location header by decoding its percent
\* escapes
RECURSIVE PercentDecode(_)
PercentDecode(s) ==
    IF s = <<>> THEN <<>>
    ELSE IF HasPrefix(s, <<"%", "c", "3", "%", "a", "9">>)
    THEN <<"U+00E9">> \o PercentDecode(SubSeq(s, 7, Len(s)))
    ELSE <<Head(s)>> \o PercentDecode(Tail(s))

\* the steps of GET /{shortCode} but the last: 404 and an unchanged table for
\* a code without record, the count of the record up by exactly 1 otherwise
C21_Counts(p) ==
    /\ (pc[p] = "hr_lookup" /\ pc'[p] # "hr_lookup") =>
          /\ storage' = storage
          /\ IF arg[p] \in DOMAIN storage
             THEN pc'[p] = "hr_increment"
             ELSE pc'[p] = "idle" /\ ret'[p].val.status = 404
    /\ (pc[p] = "hr_increment" /\ pc'[p] # "hr_increment") =>
          /\ storage' = [storage EXCEPT ![arg[p]].AccessCount = @ + 1]
          /\ pc'[p] = "hr_respond"

\* C21 as stated: GET /{shortCode} for a code with a record answers 301 with
\* Location equal to the record's originalURL and increments the record's
\* accessCount by exactly 1; for a code without record it answers 404 and
\* changes nothing in the table.
C21_StepOriginal ==
    \A p \in Procs :
        /\ C21_Counts(p)
        /\ (pc[p] = "hr_respond" /\ pc'[p] # "hr_respond") =>
              /\ storage' = storage
              /\ ret'[p].val.status = 301
              /\ ret'[p].val.body.Location = storage[arg[p]].OriginalURL

C21_RedirectEndpoint == [][C21_StepOriginal]_vars

\* C21 amended: Location is the record's originalURL with every byte outside
\* ASCII percent-encoded: it has no such byte, decodes to originalURL, and is
\* originalURL itself when that is ASCII.
C21_StepAmended ==
    \A p \in Procs :
        /\ C21_Counts(p)
        /\ (pc[p] = "hr_respond" /\ pc'[p] # "hr_respond") =>
              /\ storage' = storage
              /\ ret'[p].val.status = 301
              /\ ~Contains(ret'[p].val.body.Location, "U+00E9")
              /\ PercentDecode(ret'[p].val.body.Location) = storage[arg[p]].OriginalURL
              /\ ~Contains(storage[arg[p]].OriginalURL, "U+00E9") =>
                    ret'[p].val.body.Location = storage[arg[p]].OriginalURL

C21_RedirectAmended == [][C21_StepAmended]_vars

\* a redirect has been answered with a percent-encoded Location, for a record
\* that has been counted once
C21_Witness ==
    \E p \in Procs, c \in DOMAIN storage :
        /\ ret[p].op = "redirectHandler"
        /\ ret[p].val.status = 301
        /\ Contains(ret[p].val.body.Location, "%")
        /\ PercentDecode(ret[p].val.body.Location) = storage[c].OriginalURL
        /\ storage[c].AccessCount = 1

\* C22: POST /api/shorten with a body that is not JSON, that has no or an
\* empty url, or whose url isValidURL rejects answers 400 and leaves the
\* table unchanged; with a valid url it answers 200 with short_code the code
\* of the record, original_url the canonical form of the url and short_url
\* baseURL, "/" and short_code.
C22_Step ==
    \A p \in Procs :
        /\ \A body \in ShortenBodies :
              ShortenCall(p, body) =>
                 IF ~body.json \/ body.url = <<>> \/ ~isValidURL(body.url)
                 THEN /\ ret'[p].op = "createShortURLHandler"
                      /\ ret'[p].val.status = 400
                      /\ pc'[p] = "idle"
                      /\ storage' = storage
                 ELSE /\ ret'[p] = NoRet
                      /\ pc'[p] = "hc_scan"
        /\ (pc[p] = "hc_respond" /\ pc'[p] # "hc_respond") =>
              /\ ret'[p].op = "createShortURLHandler"
              /\ ret'[p].val.status = 200
              /\ ret'[p].val.body.short_code \in DOMAIN storage
              /\ ret'[p].val.body.short_code = ret[p].val
              /\ storage[ret[p].val].ShortCode = ret[p].val
              /\ storage[ret[p].val].OriginalURL = Canonical(arg[p])
              /\ ret'[p].val.body.original_url = Canonical(arg[p])
              /\ ret'[p].val.body.short_url =
                    <<"h", "t", "t", "p", ":", "/", "/">> \o StrLocalhost
                        \o <<":", "8", "0", "8", "0", "/">>
                        \o ret'[p].val.body.short_code

C23_Step ==
    \A p \in Procs :
        pc[p] = "l_collect" =>
            /\ storage' = storage
            /\ p \in mutex.readers
            /\ mutex.writer = 0
            /\ \A q \in Procs : pc[q] \notin {"c_generate", "c_insert"}
            /\ pc'[p] # "l_collect" =>
                  /\ ret'[p].op = "list"
                  /\ \A i \in DOMAIN ret'[p].val : ret'[p].val[i] \in DOMAIN storage
                  /\ \A c \in DOMAIN storage :
                        Cardinality({i \in DOMAIN ret'[p].val : ret'[p].val[i] = c}) = 1

C23_ListSnapshot == [][C23_Step]_vars

\* getAllURLs has returned the two records of the table
C23_Witness ==
    \E p \in Procs :
        /\ ret[p].op = "list"
        /\ Len(ret[p].val) = 2
        /\ Cardinality(DOMAIN storage) = 2

\* caller q is inside mapping.AccessCount++ of the record with code c: it has
\* loaded the count and not stored it yet
Writing(q, c) == pc[q] = "hr_increment" /\ arg[q] = c

\* the records whose fields the next step of caller p reads: all of them in
\* the dedup scan, the one looked up in GetStats, the one returned in the
\* handlers that build their response from it
ReadSet(p) ==
    CASE pc[p] = "hc_scan" -> DOMAIN storage
      [] pc[p] = "hs_lookup" -> {arg[p]} \cap DOMAIN storage
      [] pc[p] \in {"hs_respond", "hc_respond"} -> {ret[p].val}
      [] OTHER -> {}

\* C24: every write to the table or to a record's accessCount is made by the
\* holder of the exclusive lock while nobody else holds the lock in any mode;
\* and no read of a record's fields, by the dedup scan, by GetStats or by a
\* handler that reads the record it got back, is made while a Resolve is
\* writing the accessCount of that record.
C24_Step ==
    /\ storage' # storage =>
          \E p \in Procs :
              /\ mutex.writer = p
              /\ mutex.readers = {}
              /\ pc[p] \in {"hc_insert", "hr_increment"}
              /\ pc'[p] # pc[p]
    /\ \A p \in Procs :
          pc'[p] # pc[p] =>
              \A c \in ReadSet(p), q \in Procs \ {p} : ~Writing(q, c)

C24_NoTornReads == [][C24_Step]_vars

\* C25: once some Create has returned code c for a canonical URL, every Create
\* that starts afterwards with an input normalizing to that URL returns c.  A
\* Create that starts afterwards finds a record in its scan (the Creates
\* recorded in "created" have returned, and their records are in the table
\* from before the scan's read lock was taken), so the claim is about the
\* return out of the scan.
C25_Step ==
    \A p \in Procs :
        (pc[p] = "c_scan" /\ pc'[p] = "idle") =>
            \A i \in DOMAIN created :
                Canonical(created[i][1]) = Canonical(arg[p]) =>
                    created[i][2] = ret'[p].val

C25_StableMapping == [][C25_Step]_vars

\* C26: a record, once in the table, stays in it, and its code, its
\* originalURL and its createdAt never change; the set of codes only grows,
\* and only by the insert of a Create whose scan found no record for its URL.
C26_Step ==
    /\ \A c \in DOMAIN storage :
          /\ c \in DOMAIN storage'
          /\ storage'[c].ID = storage[c].ID
          /\ storage'[c].ShortCode = storage[c].ShortCode
          /\ storage'[c].OriginalURL = storage[c].OriginalURL
          /\ storage'[c].CreatedAt = storage[c].CreatedAt
    /\ \A c \in DOMAIN storage' \ DOMAIN storage :
          \E p \in Procs :
              /\ pc[p] = "c_insert"
              /\ pc'[p] = "idle"
              /\ shortCode[p] = c
              /\ storage'[c].OriginalURL = normalizedURL[p]
              /\ DOMAIN storage' = DOMAIN storage \cup {c}

C26_RecordsPermanent == [][C26_Step]_vars

\* two records, one of them resolved since it was made
C26_Witness ==
    /\ Cardinality(DOMAIN storage) = 2
    /\ \E c \in DOMAIN storage :
          storage[c].AccessCount = 1 /\ storage[c].CreatedAt < calls

\* C27: accessCount is never negative, and in every step the accessCount of
\* a record stays as it is or grows by exactly one.
C27_Step ==
    /\ \A c \in DOMAIN storage' : storage'[c].AccessCount >= 0
    /\ \A c \in DOMAIN storage \cap DOMAIN storage' :
          \/ storage'[c].AccessCount = storage[c].AccessCount
          \/ storage'[c].AccessCount = storage[c].AccessCount + 1

C27_CounterMonotone == [][C27_Step]_vars

\* a record resolved twice
C27_Witness == \E c \in DOMAIN storage : storage[c].AccessCount = 2

\* C28: a collision is retried transparently: when the code drawn is in the
\* table, Create drops it and draws again without releasing the exclusive lock
\* and without returning; it goes on to the insert only with a code that is
\* not in the table.  The only error Create returns is InvalidURL, for an
\* input that is not valid, and every Create of a valid input that returns
\* returns a record of the table.
C28_Step ==
    \A p \in Procs :
        /\ (pc[p] = "c_generate" /\ Moves(p)) =>
              /\ mutex.writer = p
              /\ mutex' = mutex
              /\ storage' = storage
              /\ ret'[p] = NoRet
              /\ IF shortCode'[p] \in DOMAIN storage
                 THEN pc'[p] = "c_generate"
                 ELSE pc'[p] = "c_insert"
        /\ \A u \in RawURLs :
              (calls' # calls /\ pc[p] = "idle" /\ CreateCall(p, u)) =>
                  IF isValidURL(u)
                  THEN ret'[p] = NoRet /\ pc'[p] = "c_scan"
                  ELSE ret'[p] = Returned("create", ErrInvalidURL, <<>>)
        /\ (pc[p] \in {"c_scan", "c_lock", "c_generate", "c_insert"} /\ pc'[p] = "idle") =>
              /\ ret'[p].op = "create"
              /\ ret'[p].err = ""
              /\ ret'[p].val \in DOMAIN storage'
              /\ storage'[ret'[p].val].OriginalURL = normalizedURL[p]

C28_CollisionsRetried == [][C28_Step]_vars

\* a caller in the loop, under the exclusive lock, whose last draw collided
C28_Witness ==
    \E p \in Procs :
        /\ pc[p] = "c_generate"
        /\ shortCode[p] \in DOMAIN storage
        /\ mutex.writer = p

\* every code generateShortCode can return is in the table
Exhausted == \A draw \in Draws : generateShortCode(draw) \in DOMAIN storage

\* C29: the retry loop is bounded: a Create that is in the loop with the code
\* space exhausted gives up, returns an explicit internal error, has released
\* the exclusive lock, and has left the table as it was.
C29_BoundedRetry ==
    \A p \in Procs :
        (pc[p] = "c_generate" /\ Exhausted) ~>
            /\ pc[p] = "idle"
            /\ ret[p].op = "create"
            /\ ret[p].err \notin {"", ErrInvalidURL}
            /\ mutex.writer # p

\* C30: a successful Resolve of code c changes the accessCount of the record
\* c and nothing else in the table: no record is added or removed, the other
\* records are as they were, and record c keeps its other fields; a Resolve
\* that fails changes nothing.
C30_Step ==
    \A p \in Procs :
        (Resolving(p) /\ Moves(p)) =>
            /\ DOMAIN storage' = DOMAIN storage
            /\ \A c \in DOMAIN storage \ {arg[p]} : storage'[c] = storage[c]
            /\ ret'[p].err = "" =>
                  /\ arg[p] \in DOMAIN storage
                  /\ pc[p] = "g_increment" =>
                        storage' = [storage EXCEPT ![arg[p]].AccessCount = @ + 1]
                  /\ pc[p] = "g_lookup" => storage' = storage
            /\ ret'[p].err # "" => storage' = storage

C30_ResolveOneRecord == [][C30_Step]_vars

\* a Resolve has returned its record out of a table of two, and the other
\* record is still unread
C30_Witness ==
    \E p \in Procs :
        /\ ret[p].op = "resolve"
        /\ ret[p].err = ""
        /\ \E c \in DOMAIN storage \ {ret[p].val} : storage[c].AccessCount = 0

\* the Creates of raw URL u that have returned, as indices of "created"
CreatesOf(u) == {i \in DOMAIN created : created[i][1] = u}

\* C31: with one call at a time, for every valid scheme-less x the Creates of
\* x and of "http://" + x, in either order, return the same code and leave
\* one record, and a Create of "https://" + x returns a different code, of a
\* different record.
C31_SchemeDedup ==
    \A x \in {UrlAB, UrlCD} :
        /\ isValidURL(x)
        /\ \A i \in CreatesOf(x) \cup CreatesOf(SchemeHTTP \o x) :
              /\ \A j \in CreatesOf(x) \cup CreatesOf(SchemeHTTP \o x) :
                    created[i][2] = created[j][2]
              /\ RecordsOf(SchemeHTTP \o x) = {created[i][2]}
              /\ \A k \in CreatesOf(SchemeHTTPS \o x) :
                    /\ created[k][2] # created[i][2]
                    /\ storage[created[k][2]] # storage[created[i][2]]
                    /\ storage[created[k][2]].OriginalURL = SchemeHTTPS \o x

\* x, "http://" + x and "https://" + x have all been created
C31_Witness ==
    /\ Quiet
    /\ \E x \in {UrlAB, UrlCD} :
          /\ CreatesOf(x) # {}
          /\ CreatesOf(SchemeHTTP \o x) # {}
          /\ CreatesOf(SchemeHTTPS \o x) # {}

\* C32: in every reachable state the originalURL of every record starts with
\* "http://", "https://" or "ftp://", is left as it is by normalizeURL, and
\* is accepted by isValidURL.
C32_StoredCanonical ==
    \A c \in DOMAIN storage :
        /\ HasScheme(storage[c].OriginalURL)
        /\ normalizeURL(storage[c].OriginalURL) = storage[c].OriginalURL
        /\ isValidURL(storage[c].OriginalURL)

\* a record made from an input without scheme that names a port
C32_Witness ==
    \E i \in DOMAIN created :
        /\ ~HasScheme(created[i][1])
        /\ Contains(created[i][1], ":")
        /\ created[i][2] \in DOMAIN storage
        /\ storage[created[i][2]].OriginalURL = SchemeHTTP \o created[i][1]

\* the mutex with the hold of caller p, in whichever mode, given up
Released(p) ==
    [writer |-> IF mutex.writer = p THEN 0 ELSE mutex.writer,
     readers |-> mutex.readers \ {p}]

\* C33: locks are released on every path: a step in which an operation
\* returns (Create out of its scan or after its insert, Resolve and Stats
\* with a record or with not-found, ListAll) starts with the caller holding
\* the one lock the operation took, in that mode only, and ends with exactly
\* that hold given up; the scan of a Create that goes on to insert gives up
\* its read lock the same way; and when no operation is in progress nobody
\* holds the lock.
C33_Step ==
    /\ \A p \in Procs :
          (Returns(p) \/ (pc[p] = "c_scan" /\ pc'[p] = "c_lock")) =>
              /\ IF pc[p] \in {"c_scan", "s_lookup", "l_collect"}
                 THEN p \in mutex.readers /\ mutex.writer # p
                 ELSE mutex.writer = p /\ p \notin mutex.readers
              /\ mutex' = Released(p)
    /\ Quiet => mutex = [writer |-> 0, readers |-> {}]
    /\ Quiet' => mutex' = [writer |-> 0, readers |-> {}]

C33_LocksReleased == [][C33_Step]_vars

\* a Resolve or a Stats has returned not-found, nothing is in progress and
\* the table is not empty
C33_Witness ==
    /\ Quiet
    /\ DOMAIN storage # {}
    /\ mutex = [writer |-> 0, readers |-> {}]
    /\ \E p \in Procs : ret[p].err = ErrNotFound

\* caller p takes a step of an operation on the first shortener, on the second
OnFirst(p) ==
    \E l \in {"c_scan", "c_lock", "c_generate", "c_insert", "g_lookup", "g_increment"} :
        (pc[p] = l \/ pc'[p] = l) /\ Moves(p)

OnSecond(p) ==
    \E l \in {"o_scan", "o_lock", "o_generate", "o_insert", "o_lookup", "o_increment"} :
        (pc[p] = l \/ pc'[p] = l) /\ Moves(p)

\* C34: two shorteners built by separate NewURLShortener calls share no
\* state: a step of a Create or a Resolve on one of them leaves the table,
\* the counters and the mutex of the other as they were.
C34_Step ==
    \A p \in Procs :
        /\ OnFirst(p) => other' = other
        /\ OnSecond(p) => storage' = storage /\ mutex' = mutex

C34_InstanceIsolation == [][C34_Step]_vars

\* one URL is in both shorteners under different codes, resolved in the
\* first only
C34_Witness ==
    \E c \in DOMAIN storage, d \in DOMAIN other.storage :
        /\ storage[c].OriginalURL = other.storage[d].OriginalURL
        /\ c # d
        /\ storage[c].AccessCount = 1
        /\ other.storage[d].AccessCount = 0

\* C35: after any sequence of addToRecentUrls calls the list has at most 10
\* entries, no two of them with the same shortCode, and the entry added last
\* is the first; adding a code that is in the list puts it first and leaves
\* the length and the order of the other entries as they were.
C35_Step ==
    \A code \in RecentCodes :
        addToRecentUrls(code) =>
            /\ Len(recentUrls') <= 10
            /\ \A i, j \in DOMAIN recentUrls' :
                  recentUrls'[i].shortCode = recentUrls'[j].shortCode => i = j
            /\ recentUrls'[1].shortCode = code
            /\ (\E i \in DOMAIN recentUrls : recentUrls[i].shortCode = code) =>
                  /\ Len(recentUrls') = Len(recentUrls)
                  /\ [i \in 1..(Len(recentUrls') - 1) |-> recentUrls'[i + 1]]
                        = FilterOut(recentUrls, code)

C35_RecentUrls == [][C35_Step]_vars

\* the list is full, an old entry has been pushed out of it, and the entry
\* in front is one that was added again
C35_Witness ==
    /\ Len(recentUrls) = 10
    /\ \E code \in 1..calls : FilterOut(recentUrls, code) = recentUrls
    /\ recentUrls[1].createdAt >= recentUrls[1].shortCode

====
